---- MODULE Spec2Model ----
(***************************************************************************)
(* Cost monitor (src/server/services/costMonitor.ts) and the session       *)
(* lifecycle it governs through the maintenance lock.                      *)
(*                                                                         *)
(* Money is fixed point: one unit is $0.0001, so the daily limit of $20 is *)
(* 200000 units and the three rates of the linear cost model are 100, 500  *)
(* and 1 unit.  Time is counted in whole hours since an epoch that falls   *)
(* on a UTC midnight; the clock advances a quarter of a day at a time and  *)
(* only between invocations (file I/O finishes well within one quantum).   *)
(* Every `await` of the source is a step boundary: an asynchronous method  *)
(* is an entry action followed by one action per segment between awaits.   *)
(* Every file operation may fail.  Under Spec the invocations of the cost  *)
(* monitor are serialized: an entry point is called when no invocation is  *)
(* in flight.  The entry actions themselves carry no such guard.           *)
(***************************************************************************)
EXTENDS Integers, Sequences, FiniteSets, TLC

\* ---------------------------------------------------------------- bounds
MaxTime == 54
MaxActive == 30
MaxTx == 1
MaxTasks == 2
MaxTimers == 2
MaxSessions == 1
MaxInvokers == 2
MaxDeposit == 6
MaxBackups == 1
MaxRecoveries == 2
MaxAmount == 4
MaxClientSessions == 2
MaxAddresses == 2

\* ------------------------------------------------------ program constants
MaxDailyCost == 200000
BaseRate == 100
SessionRate == 500
TxRate == 1
HoursPerDay == 24
MinFunding == 3
RevenuePercent == 25
Epsilon == 1
TotalSteps == 3
SessionsStep == 2

WarnThreshold == (MaxDailyCost * 8) \div 10

ClockStep == HoursPerDay \div 4
StartTime == HoursPerDay + 2 * ClockStep
TzOffsets == {0, 0 - ClockStep}
ActiveCounts == {0, MaxActive}
Procs == 1..MaxTasks
TimerIds == 1..MaxTimers
NoTimer == 0 - 1
SessionIds == 1..MaxSessions
Invokers == 1..MaxInvokers
Deposits == {MinFunding - 1, MinFunding + 1, MaxDeposit}

VARIABLES now, tz, costFile, lockFile, activeFiles, isMonitoring,
          monitoringInterval, timers, task, last,
          session, splitKey, splitter,
          backups, backupCount, recoveries, bd, bdCall,
          sd, pd, tv

monitorVars == <<now, tz, costFile, activeFiles, isMonitoring,
                 monitoringInterval, timers, task>>

sessionVars == <<session, splitKey, splitter>>

backupVars == <<backups, backupCount, recoveries, bd, bdCall>>

pageVars == <<sd, pd, tv>>

outerVars == <<backupVars, pageVars>>

vars == <<now, tz, costFile, lockFile, activeFiles, isMonitoring,
          monitoringInterval, timers, task, last, session, splitKey, splitter,
          outerVars>>

\* ------------------------------------------------------------- data
NoFile == [exists |-> FALSE]
NoLock == [exists |-> FALSE]

\* new Date().toISOString().split('T')[0]: the UTC calendar day
Today(t) == t \div HoursPerDay

CostData(d, e, s, x, r) ==
    [exists |-> TRUE, date |-> d, estimatedCost |-> e, sessionsCount |-> s,
     transactionsCount |-> x, lastReset |-> r]

DefaultCostData(t) == CostData(Today(t), 0, 0, 0, t)

ResetCostData(t) == CostData(Today(t), 0, 0, 0, t)

\* hours since local midnight: new Date(y, m, d) is midnight in local time
getHoursRunningToday(t, offset) == (t + offset) % HoursPerDay

totalEstimate(hoursRunning, sessionsActive, transactionsCount) ==
    hoursRunning * BaseRate
      + sessionsActive * hoursRunning * SessionRate
      + transactionsCount * TxRate

\* mutant: the shutdown branch taken from the warning threshold on
LimitReachedAtWarning(est) == est >= WarnThreshold

LimitReached(est) == est >= MaxDailyCost

\* mutant: the warning threshold scaled by 8 instead of 0.8
WarnReachedMisscaled(est) == est >= MaxDailyCost * 8

WarnReached(est) == est >= WarnThreshold

\* mutant: the lock written without pausing existing sessions
maintenanceModeNoPause(t) ==
    [exists |-> TRUE, maintenanceMode |-> TRUE,
     allowNewSessions |-> FALSE, pauseExistingSessions |-> FALSE,
     costLimitExceeded |-> TRUE, enabledAt |-> t]

\* mutant: the lock written with new sessions still allowed
maintenanceModeAllowsNew(t) ==
    [exists |-> TRUE, maintenanceMode |-> TRUE,
     allowNewSessions |-> TRUE, pauseExistingSessions |-> TRUE,
     costLimitExceeded |-> TRUE, enabledAt |-> t]

maintenanceMode(t) ==
    [exists |-> TRUE, maintenanceMode |-> TRUE,
     allowNewSessions |-> FALSE, pauseExistingSessions |-> TRUE,
     costLimitExceeded |-> TRUE, enabledAt |-> t]

NoSession ==
    [state |-> "none", resume |-> "none", detectedFunding |-> 0,
     tradingBalance |-> 0, revenueAmount |-> 0, transfers |-> 0, trades |-> 0,
     stop |-> FALSE]

IdleTask ==
    [op |-> "none", pc |-> "idle", costData |-> NoFile, est |-> 0, faulted |-> FALSE]

NewTask(o) == [IdleTask EXCEPT !.op = o, !.pc = "load"]

\* nothing returned to a caller
NoResult == [returned |-> FALSE]

\* mutant: withinLimits measured against the warning threshold
StatusResultWarnLimit(currentCost) ==
    [returned |-> TRUE, withinLimits |-> currentCost < WarnThreshold,
     currentCost |-> currentCost, limit |-> MaxDailyCost]

\* the object getStatus resolves to
StatusResult(currentCost) ==
    [returned |-> TRUE, withinLimits |-> currentCost < MaxDailyCost,
     currentCost |-> currentCost, limit |-> MaxDailyCost]

NoEvent == [fault |-> "none", outcome |-> "none", console |-> {}, result |-> NoResult]

Event(f, o, c) == [fault |-> f, outcome |-> o, console |-> c, result |-> NoResult]

CheckOps == {"start", "tick"}

Idle(p) == task[p].pc = "idle"

AllIdle == \A p \in Procs : Idle(p)

FreeProc == CHOOSE p \in Procs : Idle(p) /\ \A q \in Procs : Idle(q) => p <= q

FreeTimer == CHOOSE i \in TimerIds : i \notin timers /\ \A j \in TimerIds \ timers : i <= j

Starting == {p \in Procs : task[p].op = "start"}

\* ------------------------------------------------------------ dashboards
\* Amounts typed into a form are texts; a unit is 0.05 SOL, so the minimum
\* of 0.15 SOL is MinFunding. Numbers are records so that NaN can be told
\* from every number.
NaN == [nan |-> TRUE, value |-> 0]

Number(n) == [nan |-> FALSE, value |-> n]

NumberTexts == {ToString(n) : n \in 0..MaxAmount}

\* texts a user can leave in an amount field: empty, numbers, a number
\* followed by other characters, no number at all
AmountTexts == {"", "abc"} \cup NumberTexts \cup {ToString(MinFunding - 1) \o "x"}

\* parseFloat: the number a text starts with, NaN when it starts with none
parseFloat(text) ==
    IF \E n \in 0..MaxAmount : text \in {ToString(n), ToString(n) \o "x"}
      THEN Number(CHOOSE n \in 0..MaxAmount : text \in {ToString(n), ToString(n) \o "x"})
      ELSE NaN

\* mutant: a comparison that lets the amount just below the minimum pass
LessThanOffByOne(a, n) == ~a.nan /\ a.value < n - 1

\* a < n of JavaScript: false when a is NaN
LessThan(a, n) == ~a.nan /\ a.value < n

GreaterThan(a, n) == ~a.nan /\ a.value > n

\* a string in a condition: '' and undefined are falsy
Truthy(text) == text \notin {"", "undefined"}

SessionNames == {"s" \o ToString(s) : s \in 1..MaxClientSessions}

\* what POST create-session can answer: a created session (with or without
\* minAmount), or a JSON body that carries only an error
CreateResponses ==
    {[success |-> TRUE, sessionId |-> id, minAmount |-> m] :
        id \in SessionNames, m \in {"undefined", ToString(MinFunding + 1)}}
    \cup {[success |-> FALSE, sessionId |-> "undefined", minAmount |-> "undefined"]}

Tags ==
    <<"FUNDING_DETECTED", "FUNDING_PROCESSED", "TRADING_STARTED",
      "OPEN_UI_PAGES", "TRADE_EXECUTED">>

\* bot_status status strings, as the fields between the '|' delimiters
Statuses ==
    {<<"FUNDING_DETECTED", "4", "wallet">>,
     <<"FUNDING_PROCESSED", "4", "3", "1">>,
     <<"TRADING_STARTED", "3", "dex", "token", "open">>,
     <<"OPEN_UI_PAGES", "wallet", "token">>,
     <<"TRADE_EXECUTED", "BUY", "1", "sig", "1", "1", "2">>,
     <<"TRADE_EXECUTED", "SELL", "1", "sig", "2", "2", "1">>,
     <<"TRADE_EXECUTED", "BUY", "2", "FUNDING_DETECTED", "2", "2", "2">>,
     <<"ERROR", "TRADING_STARTED", "3">>,
     <<"FUNDING_DETECTED">>,
     <<"SESSION_STOPPED", "done">>}

NoMessage == [type |-> "none"]

BotStatus(id, st) == [type |-> "bot_status", sessionId |-> id, status |-> st]

SessionUpdate(id, n, active) ==
    [type |-> "session_update", sessionId |-> id, totalTrades |-> n, isActive |-> active]

Messages ==
    {BotStatus("s1", st) : st \in Statuses}
    \cup {BotStatus(id, <<"TRADE_EXECUTED", "BUY", "1", "sig", "2", "2", "2">>) :
            id \in SessionNames \ {"s1"}}
    \cup {SessionUpdate(id, 2, active) : id \in SessionNames, active \in BOOLEAN}
    \cup {[type |-> "unparsable"]}

\* status.includes(tag + '|'): the tag text directly followed by a delimiter
Includes(status, tag) == \E k \in 1..(Len(status) - 1) : status[k] = tag

\* the branch of the if / else-if chain that a status string selects
HandlerOf(status) ==
    IF \E t \in 1..Len(Tags) : Includes(status, Tags[t])
      THEN Tags[CHOOSE t \in 1..Len(Tags) :
                  /\ Includes(status, Tags[t])
                  /\ \A u \in 1..(t - 1) : ~Includes(status, Tags[u])]
      ELSE "none"

\* an element of status.split('|') read by destructuring
Field(status, k) == IF k <= Len(status) THEN status[k] ELSE "undefined"

ProfessionalDashboard ==
    [step |-> 1, sessionId |-> "", minAmount |-> MinFunding,
     fundingAmount |-> ToString(MinFunding), toast |-> "none", pending |-> {},
     lastMessage |-> NoMessage, handled |-> "none",
     liveStats |-> [transactions |-> Number(0), balance |-> Number(0),
                    status |-> "waiting", fundingDetected |-> FALSE],
     detectedFundingAmount |-> Number(0), tradingBalance |-> Number(0),
     tradingActive |-> FALSE, showTradingView |-> FALSE]

\* the bot_status branch of the message effect
OnBotStatus(p, status) ==
    LET h == HandlerOf(status)
        q == [p EXCEPT !.handled = h]
    IN  CASE h = "FUNDING_DETECTED" ->
               [q EXCEPT !.detectedFundingAmount = parseFloat(Field(status, 2)),
                         !.liveStats.fundingDetected = TRUE,
                         !.liveStats.status = "funded",
                         !.toast = "Funding Detected"]
          [] h = "FUNDING_PROCESSED" ->
               [q EXCEPT !.tradingBalance = parseFloat(Field(status, 3)),
                         !.liveStats.status = "processing",
                         !.liveStats.balance = parseFloat(Field(status, 3))]
          [] h = "TRADING_STARTED" ->
               [q EXCEPT !.tradingActive = TRUE,
                         !.liveStats.status = "trading",
                         !.liveStats.balance = parseFloat(Field(status, 2)),
                         !.showTradingView = TRUE,
                         !.toast = "Trading Started"]
          [] h = "OPEN_UI_PAGES" ->
               [q EXCEPT !.showTradingView = TRUE,
                         !.toast = "Live Trading Monitor Auto-Opened"]
          [] h = "TRADE_EXECUTED" ->
               [q EXCEPT !.liveStats.transactions = parseFloat(Field(status, 5)),
                         !.liveStats.balance = parseFloat(Field(status, 7)),
                         !.liveStats.status =
                             IF GreaterThan(parseFloat(Field(status, 7)), Epsilon)
                               THEN "trading" ELSE "completed",
                         !.toast = "Trade Executed"]
          [] OTHER -> q

\* the message effect: it runs when lastMessage or sessionId changes
OnMessage(p) ==
    LET m == p.lastMessage
    IN  IF m.type = "none" \/ ~Truthy(p.sessionId) THEN p
        ELSE IF m.type = "bot_status" /\ m.sessionId = p.sessionId
               THEN OnBotStatus(p, m.status)
        ELSE IF m.type = "session_update"
               THEN [p EXCEPT !.handled = "session_update",
                              !.liveStats.transactions = Number(m.totalTrades),
                              !.liveStats.status =
                                  IF m.isActive THEN "trading" ELSE "completed"]
        ELSE [p EXCEPT !.handled = "none"]

SimpleDashboard ==
    [step |-> 1, depositAmount |-> ToString(MinFunding), sessionId |-> "",
     toast |-> "none", pending |-> {}]

Addresses == {"a" \o ToString(k) : k \in 1..MaxAddresses}

\* state of ProfessionalTokenValidator after mount, with the address of the
\* validation request in flight (validating), the address the validation
\* result is about (validatedAddress) and the address of the last
\* create-session request (request)
ProfessionalTokenValidator ==
    [contractAddress |-> "", validationResult |-> "null", validatedAddress |-> "",
     sessionId |-> "null", pending |-> {}, validating |-> "", request |-> ""]

\* state of BackupDashboard after mount: recovery null, selectedBackup '',
\* isLoading false
BackupDashboard ==
    [recovery |-> "none", selectedBackup |-> 0, isLoading |-> FALSE,
     toast |-> "none"]

NoCall == [op |-> "none", backupTimestamp |-> 0]

\* ------------------------------------------------------------- Init
Init ==
    /\ now = StartTime
    /\ tz \in TzOffsets
    /\ costFile = NoFile
    /\ lockFile = NoLock
    /\ activeFiles = 0
    /\ isMonitoring = FALSE
    /\ monitoringInterval = NoTimer
    /\ timers = {}
    /\ task = [p \in Procs |-> IdleTask]
    /\ last = NoEvent
    /\ session = [s \in SessionIds |-> NoSession]
    /\ splitKey = {}
    /\ splitter = [s \in SessionIds |-> [i \in Invokers |-> "idle"]]
    /\ backups = <<>>
    /\ backupCount = 0
    /\ recoveries = <<>>
    /\ bd = BackupDashboard
    /\ bdCall = NoCall
    /\ sd = SimpleDashboard
    /\ pd = ProfessionalDashboard
    /\ tv = ProfessionalTokenValidator

\* ---------------------------------------------------------- environment
Tick ==
    /\ AllIdle
    /\ now + ClockStep <= MaxTime
    /\ now' = now + ClockStep
    /\ last' = NoEvent
    /\ UNCHANGED <<tz, costFile, lockFile, activeFiles, isMonitoring,
                   monitoringInterval, timers, task>>
    /\ UNCHANGED sessionVars
    /\ UNCHANGED outerVars

\* session files active_*.json appear and disappear in the working directory
SetActive ==
    /\ \E n \in ActiveCounts \ {activeFiles} : activeFiles' = n
    /\ last' = NoEvent
    /\ UNCHANGED <<now, tz, costFile, lockFile, isMonitoring,
                   monitoringInterval, timers, task>>
    /\ UNCHANGED sessionVars
    /\ UNCHANGED outerVars

\* ------------------------------------------------------- entry points
startMonitoring ==
    /\ \E p \in Procs : Idle(p)
    /\ Cardinality(timers) + Cardinality(Starting) < MaxTimers
    /\ IF isMonitoring
         THEN /\ last' = Event("none", "ok", {})
              /\ UNCHANGED <<isMonitoring, task>>
         ELSE /\ isMonitoring' = TRUE
              /\ task' = [task EXCEPT ![FreeProc] = NewTask("start")]
              /\ last' = Event("none", "none", {"started"})
    /\ UNCHANGED <<now, tz, costFile, lockFile, activeFiles,
                   monitoringInterval, timers>>
    /\ UNCHANGED sessionVars
    /\ UNCHANGED outerVars

stopMonitoring ==
    /\ IF monitoringInterval # NoTimer
         THEN /\ timers' = timers \ {monitoringInterval}
              /\ monitoringInterval' = NoTimer
         ELSE UNCHANGED <<timers, monitoringInterval>>
    /\ isMonitoring' = FALSE
    /\ last' = Event("none", "ok", {"stopped"})
    /\ UNCHANGED <<now, tz, costFile, lockFile, activeFiles, task>>
    /\ UNCHANGED sessionVars
    /\ UNCHANGED outerVars

\* a periodic timer fires: its callback awaits checkCosts
timerFire ==
    /\ timers # {}
    /\ \E p \in Procs : Idle(p)
    /\ task' = [task EXCEPT ![FreeProc] = NewTask("tick")]
    /\ last' = NoEvent
    /\ UNCHANGED <<now, tz, costFile, lockFile, activeFiles, isMonitoring,
                   monitoringInterval, timers>>
    /\ UNCHANGED sessionVars
    /\ UNCHANGED outerVars

getStatus ==
    /\ \E p \in Procs : Idle(p)
    /\ task' = [task EXCEPT ![FreeProc] = NewTask("status")]
    /\ last' = NoEvent
    /\ UNCHANGED <<now, tz, costFile, lockFile, activeFiles, isMonitoring,
                   monitoringInterval, timers>>
    /\ UNCHANGED sessionVars
    /\ UNCHANGED outerVars

recordTransaction ==
    /\ \E p \in Procs : Idle(p)
    /\ costFile.exists => costFile.transactionsCount < MaxTx
    /\ task' = [task EXCEPT ![FreeProc] = NewTask("record")]
    /\ last' = NoEvent
    /\ UNCHANGED <<now, tz, costFile, lockFile, activeFiles, isMonitoring,
                   monitoringInterval, timers>>
    /\ UNCHANGED sessionVars
    /\ UNCHANGED outerVars

\* ------------------------------------------------- asynchronous segments
\* the invocation ends; startMonitoring continues past its await and
\* installs the periodic timer
Finish(p) ==
    /\ task' = [task EXCEPT ![p] = IdleTask]
    /\ IF task[p].op = "start"
         THEN /\ timers' = timers \cup {FreeTimer}
              /\ monitoringInterval' = FreeTimer
         ELSE UNCHANGED <<timers, monitoringInterval>>

\* the value loadCostData resolves to: the parsed file, or the default
\* record when reading or parsing throws
LoadResult(readOk) ==
    IF readOk /\ costFile.exists THEN costFile ELSE DefaultCostData(now)

\* mutant: the record's date compared with the local calendar day
NeedsResetLocalDay(data) == data.date # Today(now + tz)

NeedsReset(data) == data.date # Today(now)

loadCostData(p) ==
    /\ task[p].pc = "load"
    /\ \E readOk \in BOOLEAN :
         LET data == LoadResult(readOk)
             fault == IF readOk /\ costFile.exists THEN "none" ELSE "read"
         IN  /\ task[p].op = "record" => data.transactionsCount < MaxTx
             /\ last' = Event(fault, "none", {})
             /\ IF task[p].op \in CheckOps
                  THEN IF NeedsReset(data)
                         THEN task' = [task EXCEPT ![p].pc = "resetSave",
                                                   ![p].faulted = (fault # "none"),
                                                   ![p].costData = ResetCostData(now)]
                         ELSE task' = [task EXCEPT ![p].pc = "readdir",
                                                   ![p].faulted = (fault # "none"),
                                                   ![p].costData = data]
                  ELSE IF task[p].op = "status"
                         THEN task' = [task EXCEPT ![p].pc = "readdir",
                                                   ![p].faulted = (fault # "none"),
                                                   ![p].costData = data]
                         ELSE task' = [task EXCEPT ![p].pc = "txSave",
                                                   ![p].faulted = (fault # "none"),
                                                   ![p].costData =
                                                      [data EXCEPT !.transactionsCount = @ + 1]]
    /\ UNCHANGED <<now, tz, costFile, lockFile, activeFiles, isMonitoring,
                   monitoringInterval, timers>>
    /\ UNCHANGED sessionVars
    /\ UNCHANGED outerVars

\* checkCosts line 66: the reset record is written
saveReset(p) ==
    /\ task[p].pc = "resetSave"
    /\ \E writeOk \in BOOLEAN :
         IF writeOk
           THEN /\ costFile' = task[p].costData
                /\ task' = [task EXCEPT ![p].pc = "readdir"]
                /\ last' = Event("none", "none", {"reset"})
                /\ UNCHANGED <<timers, monitoringInterval>>
           ELSE /\ UNCHANGED costFile
                /\ Finish(p)
                /\ last' = Event("write", "caught", {"error"})
    /\ UNCHANGED <<now, tz, lockFile, activeFiles, isMonitoring>>
    /\ UNCHANGED sessionVars
    /\ UNCHANGED outerVars

\* the count getActiveSessions resolves to: the listing, or 0 when it fails
ActiveResult(listOk) == IF listOk THEN activeFiles ELSE 0

getActiveSessions(p) ==
    /\ task[p].pc = "readdir"
    /\ \E listOk \in BOOLEAN :
         LET sessionsActive == ActiveResult(listOk)
             est == totalEstimate(getHoursRunningToday(now, tz), sessionsActive,
                                  task[p].costData.transactionsCount)
         IN  /\ task' = [task EXCEPT ![p].pc = "estSave",
                                     ![p].est = est,
                                     ![p].faulted = (@ \/ ~listOk),
                                     ![p].costData = [@ EXCEPT !.estimatedCost = est,
                                                               !.sessionsCount = sessionsActive]]
             /\ last' = Event(IF listOk THEN "none" ELSE "readdir", "none", {})
    /\ UNCHANGED <<now, tz, costFile, lockFile, activeFiles, isMonitoring,
                   monitoringInterval, timers>>
    /\ UNCHANGED sessionVars
    /\ UNCHANGED outerVars

\* estimateCurrentCosts line 109, then the caller's use of the estimate
saveEstimate(p) ==
    /\ task[p].pc = "estSave"
    /\ \E writeOk \in BOOLEAN :
         IF ~writeOk
           THEN /\ UNCHANGED costFile
                /\ Finish(p)
                /\ last' = Event("write",
                                 IF task[p].op \in CheckOps THEN "caught" ELSE "rejected",
                                 IF task[p].op \in CheckOps THEN {"error"} ELSE {})
           ELSE /\ costFile' = task[p].costData
                /\ IF task[p].op = "status"
                     THEN /\ Finish(p)
                          /\ last' = [Event("none", "ok", {}) EXCEPT
                                        !.result = StatusResult(task[p].est)]
                     ELSE IF LimitReached(task[p].est)
                            THEN /\ task' = [task EXCEPT ![p].pc = "lockWrite"]
                                 /\ last' = Event("none", "none", {"estimate", "exceeded", "shutdown"})
                                 /\ UNCHANGED <<timers, monitoringInterval>>
                            ELSE /\ Finish(p)
                                 /\ last' = Event("none", "ok",
                                                  IF WarnReached(task[p].est)
                                                    THEN {"estimate", "warning"}
                                                    ELSE {"estimate"})
    /\ UNCHANGED <<now, tz, lockFile, activeFiles, isMonitoring>>
    /\ UNCHANGED sessionVars
    /\ UNCHANGED outerVars

\* emergencyShutdown line 148: MAINTENANCE_MODE.json is written
emergencyShutdown(p) ==
    /\ task[p].pc = "lockWrite"
    /\ \E writeOk \in BOOLEAN :
         IF writeOk
           THEN /\ lockFile' = maintenanceMode(now)
                /\ last' = Event("none", "ok", {"resume", "alert"})
           ELSE /\ UNCHANGED lockFile
                /\ last' = Event("lockwrite", "caught", {"error"})
    /\ Finish(p)
    /\ UNCHANGED <<now, tz, costFile, activeFiles, isMonitoring>>
    /\ UNCHANGED sessionVars
    /\ UNCHANGED outerVars

\* recordTransaction line 191
saveTransaction(p) ==
    /\ task[p].pc = "txSave"
    /\ \E writeOk \in BOOLEAN :
         IF writeOk
           THEN /\ costFile' = task[p].costData
                /\ last' = Event("none", "ok", {})
           ELSE /\ UNCHANGED costFile
                /\ last' = Event("write", "rejected", {})
    /\ Finish(p)
    /\ UNCHANGED <<now, tz, lockFile, activeFiles, isMonitoring>>
    /\ UNCHANGED sessionVars
    /\ UNCHANGED outerVars

\* ------------------------------------------------------ session lifecycle
\* The server side of the session state machine is not among the sources;
\* it is modelled from sections 3, 4.1-4.4 and 5 of the specification.
\* Amounts are whole units; the trade size and fee are left to the venue.
LockSet(lock) == lock.exists /\ lock.maintenanceMode

ForbidsNewSessions(lock) == LockSet(lock) /\ ~lock.allowNewSessions

PausesSessions(lock) == LockSet(lock) /\ lock.pauseExistingSessions

Terminal(st) == st \in {"completed", "failed"}

RevenueShare(funding) == (funding * RevenuePercent) \div 100

\* mutant: the whole deposit recorded as trading allocation
TradingAllocationWhole(funding) == funding

TradingAllocation(funding) == (funding * (100 - RevenuePercent)) \div 100

\* mutant: the idempotency key never consulted
AlreadySplitUnchecked(s) == FALSE

\* the idempotency key of the splitter is the session id
AlreadySplit(s) == s \in splitKey

Transferring(s) == \E i \in Invokers : splitter[s][i] = "transferring"

\* mutant: the stop flag never read by the session task
StopRequestedIgnored(r) == FALSE

\* the cooperative stop flag, read by the session task at each loop iteration
StopRequested(r) == r.stop

FreeSession ==
    CHOOSE s \in SessionIds :
        session[s].state = "none" /\ \A r \in SessionIds : session[r].state = "none" => s <= r

\* MAINTENANCE_MODE.json is removed by hand
clearMaintenance ==
    /\ lockFile.exists
    /\ lockFile' = NoLock
    /\ last' = NoEvent
    /\ UNCHANGED monitorVars
    /\ UNCHANGED sessionVars
    /\ UNCHANGED outerVars

\* emergencyShutdown's write, seen from the session machine
maintenanceWritten ==
    /\ lockFile' = maintenanceMode(now)
    /\ last' = NoEvent
    /\ UNCHANGED monitorVars
    /\ UNCHANGED sessionVars
    /\ UNCHANGED outerVars

createSession ==
    /\ \E s \in SessionIds : session[s].state = "none"
    /\ \E valid \in BOOLEAN :
         IF ForbidsNewSessions(lockFile)
           THEN /\ last' = Event("none", "maintenance", {})
                /\ UNCHANGED session
           ELSE IF ~valid
                  THEN /\ last' = Event("none", "invalid", {})
                       /\ UNCHANGED session
                  ELSE /\ last' = Event("none", "created", {})
                       /\ session' = [session EXCEPT ![FreeSession].state = "created"]
    /\ UNCHANGED <<lockFile, splitKey, splitter>>
    /\ UNCHANGED monitorVars
    /\ UNCHANGED outerVars

provisionWallet(s) ==
    /\ session[s].state = "created"
    /\ ~session[s].stop
    /\ \E ok \in BOOLEAN :
         session' = [session EXCEPT ![s].state = IF ok THEN "awaiting_funding" ELSE "failed"]
    /\ last' = NoEvent
    /\ UNCHANGED <<lockFile, splitKey, splitter>>
    /\ UNCHANGED monitorVars
    /\ UNCHANGED outerVars

\* one poll of the fund detector that observes a balance increase
detectFunding(s) ==
    /\ session[s].state = "awaiting_funding"
    /\ ~session[s].stop
    /\ \E amount \in Deposits :
         IF amount >= MinFunding
           THEN session' = [session EXCEPT ![s].state = "funded",
                                           ![s].detectedFunding = amount]
           ELSE UNCHANGED session
    /\ last' = NoEvent
    /\ UNCHANGED <<lockFile, splitKey, splitter>>
    /\ UNCHANGED monitorVars
    /\ UNCHANGED outerVars

\* an invocation of the splitter takes the idempotency key or returns;
\* invocations are interchangeable, so the next one takes the lowest free slot
splitBegin(s, i) ==
    /\ session[s].state = "funded"
    /\ ~session[s].stop
    /\ ~PausesSessions(lockFile)
    /\ splitter[s][i] = "idle"
    /\ \A j \in Invokers : splitter[s][j] = "idle" => i <= j
    /\ IF AlreadySplit(s)
         THEN /\ splitter' = [splitter EXCEPT ![s][i] = "done"]
              /\ UNCHANGED splitKey
         ELSE /\ splitter' = [splitter EXCEPT ![s][i] = "transferring"]
              /\ splitKey' = splitKey \cup {s}
    /\ last' = NoEvent
    /\ UNCHANGED <<lockFile, session>>
    /\ UNCHANGED monitorVars
    /\ UNCHANGED outerVars

\* mutant: trading starts whether or not the transfer was confirmed
SplitResultTradesAnyway(r, ok) ==
    [r EXCEPT !.state = "trading",
              !.transfers = IF ok THEN @ + 1 ELSE @,
              !.revenueAmount = IF ok THEN RevenueShare(r.detectedFunding) ELSE @,
              !.tradingBalance = TradingAllocation(r.detectedFunding)]

\* the revenue transfer is confirmed or fails
SplitResult(r, ok) ==
    IF ok
      THEN [r EXCEPT !.state = "trading",
                     !.transfers = @ + 1,
                     !.revenueAmount = RevenueShare(r.detectedFunding),
                     !.tradingBalance = TradingAllocation(r.detectedFunding)]
      ELSE [r EXCEPT !.state = "failed"]

splitConfirm(s, i) ==
    /\ splitter[s][i] = "transferring"
    /\ \E ok \in BOOLEAN : session' = [session EXCEPT ![s] = SplitResult(@, ok)]
    /\ splitter' = [splitter EXCEPT ![s][i] = "done"]
    /\ last' = NoEvent
    /\ UNCHANGED <<lockFile, splitKey>>
    /\ UNCHANGED monitorVars
    /\ UNCHANGED outerVars

\* mutant: the loop keeps a session in trading whatever balance is left
TradeResultNeverCompletes(r, used) ==
    [r EXCEPT !.tradingBalance = @ - used, !.trades = @ + 1]

\* the record after a successful trade that consumed `used` (amount and fees)
TradeResult(r, used) ==
    [r EXCEPT !.tradingBalance = @ - used,
              !.trades = @ + 1,
              !.state = IF r.tradingBalance - used < Epsilon THEN "completed" ELSE "trading"]

\* one tick of the trade loop
executeTrade(s) ==
    /\ session[s].state = "trading"
    /\ ~StopRequested(session[s])
    /\ ~PausesSessions(lockFile)
    /\ \/ \E used \in 1..session[s].tradingBalance :
            session' = [session EXCEPT ![s] = TradeResult(@, used)]
       \/ session' = [session EXCEPT ![s].state = "failed"]
    /\ last' = NoEvent
    /\ UNCHANGED <<lockFile, splitKey, splitter>>
    /\ UNCHANGED monitorVars
    /\ UNCHANGED outerVars

\* the session task reads the lock before an iteration and suspends
pauseSession(s) ==
    /\ session[s].state \in {"funded", "trading"}
    /\ ~session[s].stop
    /\ ~Transferring(s)
    /\ PausesSessions(lockFile)
    /\ session' = [session EXCEPT ![s].state = "paused", ![s].resume = session[s].state]
    /\ last' = NoEvent
    /\ UNCHANGED <<lockFile, splitKey, splitter>>
    /\ UNCHANGED monitorVars
    /\ UNCHANGED outerVars

resumeSession(s) ==
    /\ session[s].state = "paused"
    /\ ~PausesSessions(lockFile)
    /\ session' = [session EXCEPT ![s].state = session[s].resume, ![s].resume = "none"]
    /\ last' = NoEvent
    /\ UNCHANGED <<lockFile, splitKey, splitter>>
    /\ UNCHANGED monitorVars
    /\ UNCHANGED outerVars

\* stopSession: a cooperative flag, a no-op on a terminal session
stopSession(s) ==
    /\ session[s].state # "none"
    /\ IF Terminal(session[s].state)
         THEN UNCHANGED session
         ELSE session' = [session EXCEPT ![s].stop = TRUE]
    /\ last' = NoEvent
    /\ UNCHANGED <<lockFile, splitKey, splitter>>
    /\ UNCHANGED monitorVars
    /\ UNCHANGED outerVars

\* the session task observes the stop flag at its next iteration
observeStop(s) ==
    /\ session[s].state \in {"created", "awaiting_funding", "funded", "trading"}
    /\ session[s].stop
    /\ ~Transferring(s)
    /\ session' = [session EXCEPT ![s].state = "completed"]
    /\ last' = NoEvent
    /\ UNCHANGED <<lockFile, splitKey, splitter>>
    /\ UNCHANGED monitorVars
    /\ UNCHANGED outerVars

\* ------------------------------------------------------ backup, recovery
\* The Backup Service and the Recovery Service run on the server and are
\* not among the sources; they are modelled from sections 3, 4.5 and 4.6 of
\* the specification. BackupDashboard is the client that calls them.
Artifact(ts, ss) == [timestamp |-> ts, sessions |-> ss]

Timestamps(list) == {list[k].timestamp : k \in 1..Len(list)}

HasBackup(ts) == ts \in Timestamps(backups)

BackupAt(ts) == backups[CHOOSE k \in 1..Len(backups) : backups[k].timestamp = ts]

RecoverySession(ts) ==
    [status |-> "in-progress", backupTimestamp |-> ts, completedSteps |-> 0]

InProgress(list) == {k \in 1..Len(list) : list[k].status = "in-progress"}

\* mutant: the exclusive flag never consulted
RecoveryBusyUnchecked(list) == FALSE

\* the exclusive flag of the Recovery Service
RecoveryBusy(list) == InProgress(list) # {}

\* GET recovery/status: the latest RecoverySession, or none
ActiveRecovery ==
    IF recoveries = <<>> THEN "none" ELSE recoveries[Len(recoveries)].status

\* id, state and balances of every session
SessionList(ss) ==
    [s \in SessionIds |->
        [state |-> ss[s].state, detectedFunding |-> ss[s].detectedFunding,
         tradingBalance |-> ss[s].tradingBalance,
         revenueAmount |-> ss[s].revenueAmount]]

\* mutant: a restore that brings back states but keeps the live balances
RestoreKeepsBalances(ss, snap) ==
    [s \in SessionIds |-> [snap[s] EXCEPT !.tradingBalance = ss[s].tradingBalance]]

\* the restore-sessions step replaces the live sessions by the captured ones
Restore(ss, snap) == snap

\* the answer of POST recovery/initiate to a request for backup ts
InitiateAnswer(ts) ==
    IF RecoveryBusy(recoveries) THEN "recovery already in progress"
    ELSE IF ~HasBackup(ts) THEN "backup not found"
    ELSE "success"

\* useEffect on mount, and the 10 s poll
loadRecoveryStatus ==
    /\ \E ok \in BOOLEAN :
         bd' = [bd EXCEPT !.recovery = IF ok THEN ActiveRecovery ELSE @,
                          !.toast = "none"]
    /\ bd' # bd
    /\ UNCHANGED <<backups, backupCount, recoveries, bdCall>>
    /\ UNCHANGED <<monitorVars, lockFile, last, sessionVars, pageVars>>

\* loadBackupList refreshes the list and the user clicks one of its backups
setSelectedBackup ==
    /\ \E ts \in Timestamps(backups) \ {bd.selectedBackup} :
         bd' = [bd EXCEPT !.selectedBackup = ts, !.toast = "none"]
    /\ UNCHANGED <<backups, backupCount, recoveries, bdCall>>
    /\ UNCHANGED <<monitorVars, lockFile, last, sessionVars, pageVars>>

\* createBackup up to its await; the button is disabled while isLoading
createBackup ==
    /\ ~bd.isLoading
    /\ bdCall = NoCall
    /\ backupCount < MaxBackups
    /\ bd' = [bd EXCEPT !.isLoading = TRUE, !.toast = "none"]
    /\ bdCall' = [op |-> "create", backupTimestamp |-> 0]
    /\ UNCHANGED <<backups, backupCount, recoveries>>
    /\ UNCHANGED <<monitorVars, lockFile, last, sessionVars, pageVars>>

\* POST backup/create answers (or the fetch rejects) and createBackup resumes
createBackupDone ==
    /\ bdCall.op = "create"
    /\ \E ok \in (IF backupCount < MaxBackups THEN BOOLEAN ELSE {FALSE}) :
         IF ok
           THEN /\ backups' = Append(backups, Artifact(backupCount + 1, session))
                /\ backupCount' = backupCount + 1
                /\ bd' = [bd EXCEPT !.isLoading = FALSE, !.toast = "Backup Created"]
           ELSE /\ UNCHANGED <<backups, backupCount>>
                /\ bd' = [bd EXCEPT !.isLoading = FALSE, !.toast = "Backup Failed"]
    /\ bdCall' = NoCall
    /\ UNCHANGED recoveries
    /\ UNCHANGED <<monitorVars, lockFile, last, sessionVars, pageVars>>

\* initiateRecovery up to its await; the button is rendered for a selected
\* backup and disabled while isLoading or while the recovery shown is
\* in-progress
initiateRecovery ==
    /\ ~bd.isLoading
    /\ bd.recovery # "in-progress"
    /\ bdCall = NoCall
    /\ IF bd.selectedBackup = 0
         THEN /\ bd' = [bd EXCEPT !.toast = "No Backup Selected"]
              /\ bd' # bd
              /\ UNCHANGED bdCall
         ELSE /\ bd' = [bd EXCEPT !.isLoading = TRUE, !.toast = "none"]
              /\ bdCall' = [op |-> "initiate", backupTimestamp |-> bd.selectedBackup]
    /\ UNCHANGED <<backups, backupCount, recoveries>>
    /\ UNCHANGED <<monitorVars, lockFile, last, sessionVars, pageVars>>

\* POST recovery/initiate is served: a refusal, or an emergency backup of the
\* current state and a new RecoverySession; then the response arrives (or
\* the fetch rejects) and initiateRecovery resumes
initiateRecoveryDone ==
    /\ bdCall.op = "initiate"
    /\ LET answer == InitiateAnswer(bdCall.backupTimestamp)
       IN  /\ answer = "success" => Len(recoveries) < MaxRecoveries
           /\ IF answer = "success"
                THEN /\ backups' = Append(backups, Artifact(backupCount + 1, session))
                     /\ backupCount' = backupCount + 1
                     /\ recoveries' =
                          Append(recoveries, RecoverySession(bdCall.backupTimestamp))
                ELSE UNCHANGED <<backups, backupCount, recoveries>>
           /\ \E delivered \in BOOLEAN :
                bd' = IF delivered /\ answer = "success"
                        THEN [bd EXCEPT !.isLoading = FALSE,
                                        !.toast = "Recovery Initiated",
                                        !.recovery = "in-progress"]
                        ELSE [bd EXCEPT !.isLoading = FALSE,
                                        !.toast = IF delivered THEN answer
                                                  ELSE "Failed to initiate recovery"]
    /\ bdCall' = NoCall
    /\ UNCHANGED <<monitorVars, lockFile, last, sessionVars, pageVars>>

\* the record of a recovery after its next step succeeded or failed
StepResult(r, ok) ==
    IF ~ok THEN [r EXCEPT !.status = "failed"]
    ELSE [r EXCEPT !.completedSteps = @ + 1,
                   !.status = IF r.completedSteps + 1 = TotalSteps
                                THEN "completed" ELSE "in-progress"]

\* one named step of the recovery in progress: database, sessions, config
recoveryStep ==
    /\ RecoveryBusy(recoveries)
    /\ LET k == CHOOSE j \in InProgress(recoveries) : TRUE
           r == recoveries[k]
           sessionsStep == r.completedSteps + 1 = SessionsStep
       IN  \E ok \in (IF sessionsStep /\ ~HasBackup(r.backupTimestamp)
                        THEN {FALSE} ELSE BOOLEAN) :
               /\ recoveries' = [recoveries EXCEPT ![k] = StepResult(r, ok)]
               /\ IF ok /\ sessionsStep
                    THEN session' = Restore(session, BackupAt(r.backupTimestamp).sessions)
                    ELSE UNCHANGED session
    /\ UNCHANGED <<backups, backupCount, bd, bdCall>>
    /\ UNCHANGED <<monitorVars, lockFile, last, splitKey, splitter, pageVars>>

\* the pages are separate components, each with a state of its own: a run
\* follows the one that is mounted and the others keep their initial state
SimplePage == pd = ProfessionalDashboard /\ tv = ProfessionalTokenValidator

ProfessionalPage == sd = SimpleDashboard /\ tv = ProfessionalTokenValidator

ValidatorPage == sd = SimpleDashboard /\ pd = ProfessionalDashboard

\* the deposit field's onChange
setDepositAmount ==
    /\ SimplePage
    /\ \E text \in AmountTexts \ {sd.depositAmount} :
         sd' = [sd EXCEPT !.depositAmount = text, !.toast = "none"]
    /\ UNCHANGED <<pd, tv>>
    /\ UNCHANGED <<monitorVars, lockFile, last, sessionVars, backupVars>>

\* SimpleDashboard.handleStartBot; the button is disabled while the start
\* request is pending
handleStartBot ==
    /\ SimplePage
    /\ "start" \notin sd.pending
    /\ IF LessThan(parseFloat(sd.depositAmount), MinFunding)
         THEN sd' = [sd EXCEPT !.toast = "Minimum deposit is 0.15 SOL"]
         ELSE sd' = [sd EXCEPT !.pending = @ \cup {"create", "start"},
                               !.toast = "none"]
    /\ sd' # sd
    /\ UNCHANGED <<pd, tv>>
    /\ UNCHANGED <<monitorVars, lockFile, last, sessionVars, backupVars>>

\* SimpleDashboard.createSessionMutation settles
sdCreateSessionSettled ==
    /\ SimplePage
    /\ "create" \in sd.pending
    /\ \/ \E data \in CreateResponses :
            sd' = [sd EXCEPT !.pending = @ \ {"create"},
                             !.sessionId = data.sessionId,
                             !.step = 2,
                             !.toast = "Token Validated Successfully"]
       \/ sd' = [sd EXCEPT !.pending = @ \ {"create"},
                           !.toast = "Token Validation Failed"]
    /\ UNCHANGED <<pd, tv>>
    /\ UNCHANGED <<monitorVars, lockFile, last, sessionVars, backupVars>>

\* SimpleDashboard.startBotMutation settles
sdStartBotSettled ==
    /\ SimplePage
    /\ "start" \in sd.pending
    /\ \E ok \in BOOLEAN :
         sd' = [sd EXCEPT !.pending = @ \ {"start"},
                          !.toast = IF ok THEN "Bot started successfully"
                                    ELSE "Failed to start bot"]
    /\ UNCHANGED <<pd, tv>>
    /\ UNCHANGED <<monitorVars, lockFile, last, sessionVars, backupVars>>

\* ProfessionalDashboard.handleCreateSession with the address in the field;
\* the button is disabled while the mutation is pending
pdHandleCreateSession ==
    /\ ProfessionalPage
    /\ "create" \notin pd.pending
    /\ \E tokenAddress \in {"", "address"} :
         IF tokenAddress = ""
           THEN pd' = [pd EXCEPT !.toast = "Missing Information"]
           ELSE pd' = [pd EXCEPT !.pending = @ \cup {"create"}, !.toast = "none"]
    /\ pd' # pd
    /\ UNCHANGED <<sd, tv>>
    /\ UNCHANGED <<monitorVars, lockFile, last, sessionVars, backupVars>>

\* onSuccess of ProfessionalDashboard.createSessionMutation
Created(p, data) ==
    [p EXCEPT !.sessionId = data.sessionId,
              !.minAmount = IF data.minAmount = "undefined" THEN MinFunding
                            ELSE parseFloat(data.minAmount).value,
              !.fundingAmount = IF data.minAmount = "undefined"
                                  THEN ToString(MinFunding) ELSE data.minAmount,
              !.step = 2,
              !.toast = "Token Validation Complete"]

\* ProfessionalDashboard.createSessionMutation settles: onSuccess for every
\* JSON body, onError when the fetch or the parse fails; a changed sessionId
\* runs the message effect again
pdCreateSessionSettled ==
    /\ ProfessionalPage
    /\ "create" \in pd.pending
    /\ \/ \E data \in CreateResponses :
            LET p == Created([pd EXCEPT !.pending = @ \ {"create"}], data)
            IN  pd' = IF p.sessionId # pd.sessionId THEN OnMessage(p) ELSE p
       \/ pd' = [pd EXCEPT !.pending = @ \ {"create"},
                           !.toast = "Token Validation Failed"]
    /\ UNCHANGED <<sd, tv>>
    /\ UNCHANGED <<monitorVars, lockFile, last, sessionVars, backupVars>>

\* the fundingAmount state setter
setFundingAmount ==
    /\ ProfessionalPage
    /\ \E text \in AmountTexts \ {pd.fundingAmount} :
         pd' = [pd EXCEPT !.fundingAmount = text, !.toast = "none"]
    /\ UNCHANGED <<sd, tv>>
    /\ UNCHANGED <<monitorVars, lockFile, last, sessionVars, backupVars>>

\* ProfessionalDashboard.handleFundSession
handleFundSession ==
    /\ ProfessionalPage
    /\ "fund" \notin pd.pending
    /\ IF pd.fundingAmount = "" \/ LessThan(parseFloat(pd.fundingAmount), pd.minAmount)
         THEN pd' = [pd EXCEPT !.toast = "Minimum funding"]
         ELSE pd' = [pd EXCEPT !.pending = @ \cup {"fund"}, !.toast = "none"]
    /\ pd' # pd
    /\ UNCHANGED <<sd, tv>>
    /\ UNCHANGED <<monitorVars, lockFile, last, sessionVars, backupVars>>

\* ProfessionalDashboard.fundSessionMutation settles
pdFundSessionSettled ==
    /\ ProfessionalPage
    /\ "fund" \in pd.pending
    /\ \E ok \in BOOLEAN :
         pd' = IF ok
                 THEN [pd EXCEPT !.pending = @ \ {"fund"}, !.step = 3,
                                 !.toast = "Professional Trading Activated"]
                 ELSE [pd EXCEPT !.pending = @ \ {"fund"}, !.toast = "Funding Failed"]
    /\ UNCHANGED <<sd, tv>>
    /\ UNCHANGED <<monitorVars, lockFile, last, sessionVars, backupVars>>

\* a WebSocket message arrives and the message effect runs
pdMessage ==
    /\ ProfessionalPage
    /\ \E m \in Messages :
         pd' = IF m.type = "unparsable"
                 THEN [pd EXCEPT !.lastMessage = m, !.handled = "none"]
                 ELSE OnMessage([pd EXCEPT !.lastMessage = m, !.toast = "none"])
    /\ pd' # pd
    /\ UNCHANGED <<sd, tv>>
    /\ UNCHANGED <<monitorVars, lockFile, last, sessionVars, backupVars>>

\* the contract address field's onChange; the field is shown until a session
\* was created
setContractAddress ==
    /\ ValidatorPage
    /\ tv.sessionId = "null"
    /\ \E text \in ({""} \cup Addresses) \ {tv.contractAddress} :
         tv' = [tv EXCEPT !.contractAddress = text]
    /\ UNCHANGED <<sd, pd>>
    /\ UNCHANGED <<monitorVars, lockFile, last, sessionVars, backupVars>>

\* ProfessionalTokenValidator.handleValidateToken: the request carries the
\* address in the field; the button is disabled while a validation is pending
tvValidateToken ==
    /\ ValidatorPage
    /\ tv.sessionId = "null"
    /\ "validate" \notin tv.pending
    /\ tv.contractAddress # ""
    /\ tv' = [tv EXCEPT !.pending = @ \cup {"validate"},
                        !.validating = tv.contractAddress]
    /\ UNCHANGED <<sd, pd>>
    /\ UNCHANGED <<monitorVars, lockFile, last, sessionVars, backupVars>>

\* validateTokenMutation settles: the verdict is about the address that the
\* request carried
tvValidateSettled ==
    /\ ValidatorPage
    /\ "validate" \in tv.pending
    /\ \/ \E result \in {"success", "failure"} :
            tv' = [tv EXCEPT !.pending = @ \ {"validate"},
                             !.validationResult = result,
                             !.validatedAddress = tv.validating]
       \/ tv' = [tv EXCEPT !.pending = @ \ {"validate"}]
    /\ UNCHANGED <<sd, pd>>
    /\ UNCHANGED <<monitorVars, lockFile, last, sessionVars, backupVars>>

\* the contractAddress in the body of the create-session request
RequestAddress(v) == v.contractAddress

\* ProfessionalTokenValidator.handleCreateSession; the button is shown with
\* a successful validation result and disabled while the mutation is pending
tvHandleCreateSession ==
    /\ ValidatorPage
    /\ tv.sessionId = "null"
    /\ "create" \notin tv.pending
    /\ tv.validationResult = "success"
    /\ tv' = [tv EXCEPT !.pending = @ \cup {"create"},
                        !.request = RequestAddress(tv)]
    /\ UNCHANGED <<sd, pd>>
    /\ UNCHANGED <<monitorVars, lockFile, last, sessionVars, backupVars>>

\* ProfessionalTokenValidator.createSessionMutation settles
tvCreateSessionSettled ==
    /\ ValidatorPage
    /\ "create" \in tv.pending
    /\ \/ \E data \in CreateResponses :
            tv' = IF data.success
                    THEN [tv EXCEPT !.pending = @ \ {"create"},
                                    !.sessionId = data.sessionId]
                    ELSE [tv EXCEPT !.pending = @ \ {"create"}]
       \/ tv' = [tv EXCEPT !.pending = @ \ {"create"}]
    /\ UNCHANGED <<sd, pd>>
    /\ UNCHANGED <<monitorVars, lockFile, last, sessionVars, backupVars>>

\* ProfessionalTokenValidator.handleReset, offered once a session exists
tvHandleReset ==
    /\ ValidatorPage
    /\ tv.sessionId # "null"
    /\ tv' = [tv EXCEPT !.contractAddress = "",
                        !.validationResult = "null",
                        !.validatedAddress = "",
                        !.sessionId = "null"]
    /\ UNCHANGED <<sd, pd>>
    /\ UNCHANGED <<monitorVars, lockFile, last, sessionVars, backupVars>>

Next ==
    \/ Tick
    \/ SetActive
    \/ (AllIdle /\ startMonitoring)
    \/ (AllIdle /\ stopMonitoring)
    \/ (AllIdle /\ timerFire)
    \/ (AllIdle /\ getStatus)
    \/ (AllIdle /\ recordTransaction)
    \/ \E p \in Procs : loadCostData(p)
    \/ \E p \in Procs : saveReset(p)
    \/ \E p \in Procs : getActiveSessions(p)
    \/ \E p \in Procs : saveEstimate(p)
    \/ \E p \in Procs : emergencyShutdown(p)
    \/ \E p \in Procs : saveTransaction(p)
    \/ createSession
    \/ clearMaintenance

Spec == Init /\ [][Next]_vars

SessionNext ==
    \/ createSession
    \/ maintenanceWritten
    \/ clearMaintenance
    \/ \E s \in SessionIds : provisionWallet(s)
    \/ \E s \in SessionIds : detectFunding(s)
    \/ \E s \in SessionIds, i \in Invokers : splitBegin(s, i)
    \/ \E s \in SessionIds, i \in Invokers : splitConfirm(s, i)
    \/ \E s \in SessionIds : executeTrade(s)
    \/ \E s \in SessionIds : pauseSession(s)
    \/ \E s \in SessionIds : resumeSession(s)
    \/ \E s \in SessionIds : stopSession(s)
    \/ \E s \in SessionIds : observeStop(s)

SessionSpec == Init /\ [][SessionNext]_vars

\* sessions split once each while backups are taken and restored
FirstInvoker == CHOOSE i \in Invokers : \A j \in Invokers : i <= j

BackupNext ==
    \/ createSession
    \/ \E s \in SessionIds : provisionWallet(s)
    \/ \E s \in SessionIds : detectFunding(s)
    \/ \E s \in SessionIds : splitBegin(s, FirstInvoker)
    \/ \E s \in SessionIds : splitConfirm(s, FirstInvoker)
    \/ setSelectedBackup
    \/ createBackup
    \/ createBackupDone
    \/ initiateRecovery
    \/ initiateRecoveryDone
    \/ recoveryStep

RoundTripSpec == Init /\ [][BackupNext]_vars

RecoveryNext ==
    \/ loadRecoveryStatus
    \/ setSelectedBackup
    \/ createBackup
    \/ createBackupDone
    \/ initiateRecovery
    \/ initiateRecoveryDone
    \/ recoveryStep

RecoverySpec == Init /\ [][RecoveryNext]_vars

\* the monitoring switch with its calls interleaved at their awaits, at a
\* fixed hour: startMonitoring and stopMonitoring are called while an earlier
\* call or a periodic check is in flight
MonitoringNext ==
    \/ startMonitoring
    \/ stopMonitoring
    \/ timerFire
    \/ \E p \in Procs : loadCostData(p)
    \/ \E p \in Procs : getActiveSessions(p)
    \/ \E p \in Procs : saveEstimate(p)

MonitoringSpec == Init /\ [][MonitoringNext]_vars

\* the cost record under interleaved callers, at a fixed hour:
\* recordTransaction and getStatus are called while other calls are in flight
InterleavedNext ==
    \/ getStatus
    \/ recordTransaction
    \/ \E p \in Procs : loadCostData(p)
    \/ \E p \in Procs : getActiveSessions(p)
    \/ \E p \in Procs : saveEstimate(p)
    \/ \E p \in Procs : saveTransaction(p)

InterleavedSpec == Init /\ [][InterleavedNext]_vars

FundingNext ==
    \/ setDepositAmount
    \/ handleStartBot
    \/ sdCreateSessionSettled
    \/ sdStartBotSettled
    \/ pdHandleCreateSession
    \/ pdCreateSessionSettled
    \/ setFundingAmount
    \/ handleFundSession
    \/ pdFundSessionSettled

FundingSpec == Init /\ [][FundingNext]_vars

DashboardNext ==
    \/ pdHandleCreateSession
    \/ pdCreateSessionSettled
    \/ pdMessage
    \/ setContractAddress
    \/ tvValidateToken
    \/ tvValidateSettled
    \/ tvHandleCreateSession
    \/ tvCreateSessionSettled
    \/ tvHandleReset

DashboardSpec == Init /\ [][DashboardNext]_vars

\* ------------------------------------------------------------- claims
Moved(p) == task'[p] # task[p]

CheckRun(p) == task[p].op \in CheckOps /\ Moved(p)

ShutdownLock(lock) ==
    /\ lock.exists
    /\ lock.maintenanceMode
    /\ ~lock.allowNewSessions
    /\ lock.pauseExistingSessions

WarnBand(est) == est * 10 >= MaxDailyCost * 8 /\ est < MaxDailyCost

C2_GetStatusPureRead ==
    [][\A p \in Procs :
         (task[p].op = "status" /\ Moved(p))
         => (costFile' = costFile /\ lockFile' = lockFile)]_vars

C4_ResetOnNewDay ==
    [][\A p \in Procs :
         CheckRun(p)
         => /\ (task[p].pc = "load" /\ costFile.exists
                  /\ costFile.date # Today(now) /\ last'.fault = "none")
               => (task'[p].pc = "resetSave"
                     /\ task'[p].costData = CostData(Today(now), 0, 0, 0, now))
            /\ (task[p].pc = "resetSave" /\ last'.fault = "none")
               => (costFile' = CostData(Today(now), 0, 0, 0, now)
                     /\ task'[p].pc = "readdir"
                     /\ task'[p].costData.transactionsCount = 0)
            /\ (task'[p].pc = "idle" /\ last'.outcome = "ok")
               => (costFile'.exists /\ costFile'.date = Today(now))]_vars

C4_Witness ==
    /\ "reset" \in last.console
    /\ costFile.exists
    /\ costFile.date = Today(now)
    /\ costFile.transactionsCount = 0
    /\ Today(now) > Today(StartTime)

\* C5: a run of checkCosts whose estimate is at least 80% of maxDailyCost
\* and below it ends after saving the estimate, with a warning and no
\* shutdown, and no step of the run creates or modifies the maintenance lock.
C5_WarningLeavesLock ==
    [][\A p \in Procs :
         (CheckRun(p) /\ task[p].pc \in {"load", "resetSave", "readdir", "estSave"})
         => /\ lockFile' = lockFile
            /\ (task[p].pc = "estSave" /\ WarnBand(task[p].est))
               => /\ task'[p].pc = "idle"
                  /\ last'.fault = "none" => last'.console = {"estimate", "warning"}]_vars

C5_Witness ==
    /\ last.outcome = "ok"
    /\ "warning" \in last.console
    /\ ~lockFile.exists

\* C6 (as stated): a failure of any step inside a cost check is logged, does
\* not reject the caller's promise and does not stop monitoring.
C6_FailuresLoggedAndContained ==
    [][\A p \in Procs :
         (CheckRun(p) /\ last'.fault # "none")
         => /\ "error" \in last'.console
            /\ last'.outcome # "rejected"
            /\ isMonitoring' = isMonitoring
            /\ timers \subseteq timers']_vars

EnteredTrading(r) == r.state = "trading" \/ r.resume = "trading" \/ r.trades > 0

C8_BalanceBounded ==
    /\ [](\A s \in SessionIds :
            session[s].tradingBalance + session[s].revenueAmount
              <= session[s].detectedFunding)
    /\ [][\A s \in SessionIds :
            session[s].transfers >= 1
            => session'[s].tradingBalance <= session[s].tradingBalance]_vars

C8_Witness ==
    \E s \in SessionIds :
        /\ session[s].state = "trading"
        /\ session[s].trades >= 1
        /\ session[s].tradingBalance > 0
        /\ session[s].revenueAmount > 0

\* C9: a session is in trading (or has traded) only if its revenue transfer
\* was confirmed; an invocation whose transfer fails leaves the session
\* failed, and a failed session stays failed and never trades.
C9_RevenueBeforeTrading ==
    /\ [](\A s \in SessionIds : EnteredTrading(session[s]) => session[s].transfers >= 1)
    /\ [][\A s \in SessionIds :
            /\ (\E i \in Invokers :
                   /\ splitter[s][i] = "transferring"
                   /\ splitter'[s][i] = "done"
                   /\ session'[s].transfers = session[s].transfers)
               => session'[s].state = "failed"
            /\ session[s].state = "failed" => session'[s] = session[s]]_vars

C9_Witness ==
    \E s \in SessionIds :
        /\ session[s].state = "failed"
        /\ s \in splitKey
        /\ session[s].transfers = 0
        /\ session[s].trades = 0

\* C10: no session ever has more than one revenue transfer, and a session
\* that reached trading has exactly one, also when a second invocation of
\* the splitter starts while the first is awaiting its transfer.
C10_ExactlyOneTransfer ==
    \A s \in SessionIds :
        /\ session[s].transfers <= 1
        /\ EnteredTrading(session[s]) => session[s].transfers = 1

C10_Witness ==
    \E s \in SessionIds :
        /\ session[s].state = "trading"
        /\ session[s].transfers = 1
        /\ \A i \in Invokers : splitter[s][i] = "done"

\* C11: once stopSession has been called on a session, no trade is recorded
\* for it any more: the loop reads the flag before each trade, so the tick
\* in which the stop arrives is the last that can have traded; a stopped
\* session in trading keeps its balance and leaves trading only to complete.
C11_StopEndsTrading ==
    [][\A s \in SessionIds :
         session[s].stop
         => /\ session'[s].trades = session[s].trades
            /\ session[s].state = "trading"
               => /\ session'[s].tradingBalance = session[s].tradingBalance
                  /\ session'[s].state \in {"trading", "completed"}]_vars

C11_Witness ==
    \E s \in SessionIds :
        /\ session[s].stop
        /\ session[s].state = "completed"
        /\ session[s].trades >= 1
        /\ session[s].tradingBalance >= Epsilon

\* C12: a session whose remaining balance is below epsilon is never left in
\* trading (the trade that brings it there completes the session), every
\* trade consumes at least one unit and never more than the balance that
\* remained, so the loop completes within tradingBalance ticks.
C12_LoopCompletesWithinBalance ==
    /\ [](\A s \in SessionIds :
            /\ session[s].tradingBalance >= 0
            /\ (session[s].state = "trading" \/ session[s].resume = "trading")
               => session[s].tradingBalance >= Epsilon)
    /\ [][\A s \in SessionIds :
            session'[s].trades # session[s].trades
            => /\ session'[s].trades = session[s].trades + 1
               /\ session'[s].tradingBalance < session[s].tradingBalance
               /\ session'[s].tradingBalance >= 0
               /\ session'[s].tradingBalance < Epsilon
                  => session'[s].state = "completed"]_vars

C12_Witness ==
    \E s \in SessionIds :
        /\ session[s].state = "completed"
        /\ ~session[s].stop
        /\ session[s].trades >= 2
        /\ session[s].tradingBalance < Epsilon

\* C13: at most one RecoverySession is in-progress in any state, and an
\* initiateRecovery request served while one is in-progress creates no
\* RecoverySession and no emergency backup; the dashboard shows the error
\* and keeps the recovery it displayed.
C13_SingleRecovery ==
    /\ [](Cardinality(InProgress(recoveries)) <= 1)
    /\ [][(bdCall.op = "initiate" /\ bdCall'.op = "none" /\ InProgress(recoveries) # {})
            => /\ recoveries' = recoveries
               /\ backups' = backups
               /\ bd'.toast \in {"recovery already in progress",
                                 "Failed to initiate recovery"}
               /\ bd'.recovery = bd.recovery
               /\ ~bd'.isLoading]_vars

C13_Witness ==
    /\ bd.toast = "recovery already in progress"
    /\ Cardinality(InProgress(recoveries)) = 1
    /\ Len(recoveries) = 1

C15_BelowMinimumRejected ==
    [][LET Below(text, n) == \E k \in 0..(n - 1) : parseFloat(text) = Number(k)
       IN  /\ (handleStartBot /\ Below(sd.depositAmount, MinFunding)) =>
                sd' = [sd EXCEPT !.toast = "Minimum deposit is 0.15 SOL"]
           /\ (handleFundSession /\ Below(pd.fundingAmount, pd.minAmount)) =>
                pd' = [pd EXCEPT !.toast = "Minimum funding"]]_vars

C15_Witness ==
    /\ sd.toast = "Minimum deposit is 0.15 SOL"
    /\ parseFloat(sd.depositAmount) = Number(MinFunding - 1)
    /\ sd.pending = {}
    /\ sd.step = 1


\* C16: a bot_status message of the dashboard's session is handled by the
\* handler of the tag its status string starts with, and by none when the
\* string starts with no tag, wherever else a tag text occurs in it.
C16_LeadingTagSelectsHandler ==
    LET status == pd.lastMessage.status
        leading == IF Len(status) > 1 /\ \E t \in 1..Len(Tags) : status[1] = Tags[t]
                     THEN status[1] ELSE "none"
    IN  (/\ pd.lastMessage.type = "bot_status"
         /\ Truthy(pd.sessionId)
         /\ pd.lastMessage.sessionId = pd.sessionId) => pd.handled = leading


\* C17: a cost check that runs on a later UTC day than the record it loads,
\* resets the record and ends below the limit leaves no maintenance lock
\* behind: a lock set on an earlier day is cleared when the check ends.
C17_ResumesNextDay ==
    [][\A p \in Procs :
         (/\ CheckRun(p)
          /\ task[p].pc = "estSave"
          /\ task'[p].pc = "idle"
          /\ last'.outcome = "ok"
          /\ ~task[p].faulted
          /\ costFile'.lastReset = now
          /\ LockSet(lockFile)
          /\ Today(lockFile.enabledAt) < Today(now))
         => ~LockSet(lockFile')]_vars


\* C18: the estimate that a cost check or a getStatus call writes is never
\* below the estimatedCost of the record that it replaces when both are
\* dated the current UTC day, whatever the number of active sessions has become.
C18_EstimateAccumulates ==
    [][\A p \in Procs :
         (/\ task[p].pc = "estSave"
          /\ ~task[p].faulted
          /\ costFile.exists
          /\ costFile.date = Today(now)
          /\ costFile'.exists
          /\ costFile'.date = Today(now))
         => costFile'.estimatedCost >= costFile.estimatedCost]_vars


\* C19: for every offset between local time and UTC, the estimate is
\* computed from the hours elapsed since the start of the current UTC date,
\* the day boundary of the reset.
C19_HoursFromUtcMidnight ==
    [][\A p \in Procs :
         (task[p].pc = "readdir" /\ task'[p].pc = "estSave" /\ last'.fault = "none")
         => task'[p].est = totalEstimate(now - Today(now) * HoursPerDay, activeFiles,
                                         task[p].costData.transactionsCount)]_vars


\* C20: the professional dashboard is past step 1, or holds a session id,
\* only with the id of a session that a create-session response reported
\* as created; the same holds for the session id of the token validator.
C20_StepTwoOnlyOnCreatedSession ==
    /\ (pd.step > 1 \/ pd.sessionId # ProfessionalDashboard.sessionId)
          => pd.sessionId \in SessionNames
    /\ tv.sessionId # ProfessionalTokenValidator.sessionId
          => tv.sessionId \in SessionNames


\* C21: in the simple dashboard a start-bot request is issued only when no
\* create-session request is pending and the create-session request has
\* completed with a session.
C21_StartAfterCreate ==
    [][("start" \notin sd.pending /\ "start" \in sd'.pending)
         => ("create" \notin sd'.pending /\ sd.sessionId \in SessionNames)]_vars


\* C22: a getStatus call that completes returns the estimate it computed as
\* currentCost, the configured daily ceiling as limit, and withinLimits true
\* exactly when currentCost is below the limit, that is false exactly for
\* the estimates at which checkCosts goes on to the emergency shutdown.
C22_WithinLimitsMatchesShutdown ==
    [][\A p \in Procs :
         (task[p].op = "status" /\ task[p].pc = "estSave" /\ last'.outcome = "ok")
         => /\ last'.result.returned
            /\ last'.result.currentCost = task[p].est
            /\ last'.result.limit = MaxDailyCost
            /\ last'.result.withinLimits = (last'.result.currentCost < last'.result.limit)
            /\ last'.result.withinLimits = ~LimitReached(task[p].est)]_vars

C22_Witness ==
    /\ last.result.returned
    /\ ~last.result.withinLimits
    /\ last.result.currentCost >= MaxDailyCost
    /\ costFile.estimatedCost = last.result.currentCost


\* C23: under every interleaving of startMonitoring and stopMonitoring
\* calls at most one periodic check timer is installed.
C23_AtMostOneTimer == Cardinality(timers) <= 1

\* C24: when stopMonitoring was the last call to take effect (isMonitoring
\* is false), no periodic timer starts a cost check.
C24_NoCheckAfterStop ==
    [][(\E p \in Procs : task[p].op # "tick" /\ task'[p].op = "tick") => isMonitoring]_vars


\* C25: a recordTransaction call that completes leaves the persisted
\* transactionsCount one above the value persisted just before its write, and
\* the write of an estimate leaves the persisted transactionsCount as it
\* was, under every interleaving of calls whose reads succeed.
C25_NoLostUpdate ==
    [][\A p \in Procs :
         LET persisted == IF costFile.exists THEN costFile.transactionsCount ELSE 0
         IN  (Moved(p) /\ ~task[p].faulted /\ last'.fault = "none")
             => /\ task[p].pc = "txSave"
                   => costFile'.transactionsCount = persisted + 1
                /\ task[p].pc = "estSave"
                   => costFile'.transactionsCount = persisted]_vars


\* C26: a write that replaces a cost record dated the current UTC day by
\* another of that day never lowers transactionsCount, whether or not the
\* reads of the file succeed.
C26_CountNeverDecreases ==
    [][(/\ costFile.exists
        /\ costFile.date = Today(now)
        /\ costFile'.exists
        /\ costFile'.date = Today(now))
       => costFile'.transactionsCount >= costFile.transactionsCount]_vars


\* C27: every create-session request of the token validator carries the
\* contract address that its successful validation result is about.
C27_CreateOnlyValidatedAddress ==
    [][("create" \notin tv.pending /\ "create" \in tv'.pending)
         => (tv.validationResult = "success" /\ tv'.request = tv.validatedAddress)]_vars


\* C28: while the professional dashboard holds a session id, its live
\* statistics change only on a bot_status or session_update event whose
\* payload names that session.
C28_StatsOnlyFromOwnSession ==
    [][(/\ Truthy(pd.sessionId)
        /\ pd'.sessionId = pd.sessionId
        /\ pd'.liveStats # pd.liveStats)
       => /\ pd'.lastMessage.type \in {"bot_status", "session_update"}
          /\ pd'.lastMessage.sessionId = pd.sessionId]_vars

====
